---- MODULE Spec2Model ----
(***************************************************************************)
(* A model of package qparser (src/qparser.go): the path classifier        *)
(* parsePath, the bracket key extractor extractKeys, the query tokenizer   *)
(* ParseValues, the assembler ParseQuery and the projection builders.      *)
(*                                                                         *)
(* A Go string is modelled as a sequence of one-character strings, so that *)
(* the byte loops of the source can be followed index by index.  A Go      *)
(* value that may be nil (a pointer, a slice, a map, an error) is a record *)
(* with a BOOLEAN field "nil" beside its content, so that nil and empty    *)
(* stay distinguishable.                                                   *)
(***************************************************************************)
EXTENDS Integers, Sequences, FiniteSets, TLC

VARIABLES
    pc,          \* "input" while the caller prepares the argument, then the name of the function that returned
    typed,       \* number of pieces the caller has put into the argument so far
    path,        \* argument of parsePath
    request,     \* *Request returned by parsePath
    err,         \* error returned by the last call
    key,         \* argument of extractKeys
    topKey,      \* first result of extractKeys
    nestedKeys,  \* second result of extractKeys
    query,       \* argument of ParseValues / ParseQuery
    values,      \* Values: result of ParseValues, argument of the builders
    parsed,      \* *Query returned by ParseQuery
    includes,    \* []Include returned by initIncludes
    sort,        \* []Sort returned by initSort
    resourceFields, \* ResourceFields returned by initResourceFields
    queryFilters,   \* []Filter returned by initFilters
    queryPage,      \* *Page returned by initPage
    params,      \* argument of ParseRequest
    getArgs,     \* arguments of Values.Get: the top key and the nested keys
    got,         \* string returned by Values.Get
    cleaned,     \* string returned by removeExtraDelimiters
    isRelationship,    \* bool returned by Request.IsRelationshipRequest
    isRelatedResource  \* bool returned by Request.IsRelatedResourceRequest

vars == <<pc, typed, path, request, err, key, topKey, nestedKeys, query, values, parsed,
          includes, sort,
          resourceFields, queryFilters, queryPage, params, getArgs, got, cleaned,
          isRelationship, isRelatedResource>>

----------------------------------------------------------------------------
(* Bounds of the model.                                                    *)

MaxPathPieces == 5
MaxKeyLen == 7
MaxQueryPieces == 5
MaxFragments == 2
MaxIncludePieces == 7
MaxSortPieces == 6
MaxFieldsPieces == 5
MaxFilterPieces == 5
MaxPagePieces == 4
MaxRequestPieces == 5
MaxGetPieces == 4
MaxDelimiterLen == 6

----------------------------------------------------------------------------
(* Strings.                                                                *)

EmptyString == <<>>

\* strings.IndexByte, 1-based; 0 when c does not occur in s
IndexByte(s, c) ==
    IF \E i \in 1..Len(s) : s[i] = c
    THEN CHOOSE i \in 1..Len(s) : s[i] = c /\ \A j \in 1..(i - 1) : s[j] # c
    ELSE 0

\* strings.IndexAny, 1-based; 0 when no character of chars occurs in s
IndexAny(s, chars) ==
    IF \E i \in 1..Len(s) : s[i] \in chars
    THEN CHOOSE i \in 1..Len(s) : s[i] \in chars /\ \A j \in 1..(i - 1) : s[j] \notin chars
    ELSE 0

\* s[i:] of Go for the 1-based index i
From(s, i) == SubSeq(s, i, Len(s))

\* split(s, sep, cutc): <<head, tail>>
split(s, sep, cutc) ==
    LET i == IndexByte(s, sep)
    IN  IF i = 0 THEN <<s, EmptyString>>
        ELSE IF cutc THEN <<SubSeq(s, 1, i - 1), From(s, i + 1)>>
        ELSE <<SubSeq(s, 1, i - 1), From(s, i)>>

\* strings.Split(s, sep) for a one-character separator: always at least one part
RECURSIVE StringsSplit(_, _)
StringsSplit(s, sep) ==
    LET i == IndexByte(s, sep)
    IN  IF i = 0 THEN <<s>>
        ELSE <<SubSeq(s, 1, i - 1)>> \o StringsSplit(From(s, i + 1), sep)

----------------------------------------------------------------------------
(* Percent-decoding (net/url), as the package uses it.                     *)

HexDigits == {"0", "1", "2", "3", "4", "5", "6", "7", "8", "9",
              "a", "b", "c", "d", "e", "f", "A", "B", "C", "D", "E", "F"}

ishex(c) == c \in HexDigits

\* the byte that the escape %hl stands for; a byte outside the table is kept as
\* the opaque character "hl", different from every one-character string
unhexPair(h, l) ==
    CASE <<h, l>> = <<"2", "F">> -> "/"
      [] <<h, l>> = <<"3", "F">> -> "?"
      [] <<h, l>> = <<"2", "6">> -> "&"
      [] <<h, l>> = <<"3", "B">> -> ";"
      [] <<h, l>> = <<"3", "D">> -> "="
      [] <<h, l>> = <<"2", "5">> -> "%"
      [] <<h, l>> = <<"2", "B">> -> "+"
      [] <<h, l>> = <<"2", "C">> -> ","
      [] <<h, l>> = <<"2", "D">> -> "-"
      [] <<h, l>> = <<"2", "E">> -> "."
      [] <<h, l>> = <<"5", "B">> -> "["
      [] <<h, l>> = <<"5", "D">> -> "]"
      [] OTHER -> h \o l

\* the characters of s that are no escape: '+' is a space in the
\* query-component mode (plusIsSpace)
unescapePlain(s, plusIsSpace) ==
    [k \in 1..Len(s) |-> IF s[k] = "+" /\ plusIsSpace THEN " " ELSE s[k]]

\* url.unescape: [ok, s].  The text up to the next '%' is copied, the escape
\* is checked and decoded, and the scan goes on behind it.
RECURSIVE unescape(_, _)
unescape(s, plusIsSpace) ==
    LET i == IndexByte(s, "%")
    IN  IF i = 0 THEN [ok |-> TRUE, s |-> unescapePlain(s, plusIsSpace)]
        ELSE IF i + 2 > Len(s) \/ ~ishex(s[i + 1]) \/ ~ishex(s[i + 2])
        THEN [ok |-> FALSE, s |-> EmptyString]
        ELSE LET r == unescape(From(s, i + 3), plusIsSpace)
             IN  IF r.ok
                 THEN [ok |-> TRUE,
                       s |-> unescapePlain(SubSeq(s, 1, i - 1), plusIsSpace)
                             \o <<unhexPair(s[i + 1], s[i + 2])>> \o r.s]
                 ELSE r

PathUnescape(s) == unescape(s, FALSE)
QueryUnescape(s) == unescape(s, TRUE)

----------------------------------------------------------------------------
(* Errors and results of the path classifier.                              *)

NoError == [nil |-> TRUE]
EscapeError == [nil |-> FALSE, kind |-> "escape", args |-> <<>>]
EmptyPathError == [nil |-> FALSE, kind |-> "empty path", args |-> <<>>]
PathFormatError(expected, received) ==
    [nil |-> FALSE, kind |-> "path format", args |-> <<expected, received>>]
UnknownPathError(p) == [nil |-> FALSE, kind |-> "unknown path format", args |-> <<p>>]
QueryEscapeError == [nil |-> FALSE, kind |-> "failed to unescape query", args |-> <<>>]

NilRequest == [nil |-> TRUE]
NilQuery == [nil |-> TRUE]

\* new(Request): every field zero
NewRequest ==
    [nil |-> FALSE,
     Resource |-> [Type |-> EmptyString, ID |-> EmptyString],
     RelationshipType |-> EmptyString,
     RelatedResourceType |-> EmptyString,
     Query |-> NilQuery]

relationshipsRequest == <<"r", "e", "l", "a", "t", "i", "o", "n", "s", "h", "i", "p", "s">>

\* one iteration of the loop of removeExtraDelimiters on the character c;
\* st.rm tells whether the last character kept was the delimiter
removeExtraDelimitersStep(st, c) ==
    IF c = "/" /\ st.rm THEN st
    ELSE [rm |-> c = "/", result |-> Append(st.result, c)]

\* the iterations lo..hi of that loop, in order, from the loop state st.  The
\* range is halved, and the first half is evaluated before the second one
\* starts, only to keep the evaluation shallow on long paths.
RECURSIVE removeExtraDelimitersLoop(_, _, _, _)
removeExtraDelimitersLoop(p, lo, hi, st) ==
    IF lo > hi THEN st
    ELSE IF lo = hi THEN removeExtraDelimitersStep(st, p[lo])
    ELSE LET mid == (lo + hi) \div 2
             half == removeExtraDelimitersLoop(p, lo, mid, st)
         IN  IF half.rm \in BOOLEAN
             THEN removeExtraDelimitersLoop(p, mid + 1, hi, half)
             ELSE half

\* removeExtraDelimiters with rm not taken from the first character
removeExtraDelimitersMutFirst(p) ==
    IF p = EmptyString THEN p
    ELSE removeExtraDelimitersLoop(p, 2, Len(p),
                                   [rm |-> FALSE, result |-> <<p[1]>>]).result

removeExtraDelimiters(p) ==
    IF p = EmptyString THEN p
    ELSE removeExtraDelimitersLoop(p, 2, Len(p),
                                   [rm |-> p[1] = "/", result |-> <<p[1]>>]).result

classifyPathMutRelated(requestParts, p) ==
    LET n == Len(requestParts)
        r == NewRequest
    IN  CASE n = 1 ->
               [request |-> [r EXCEPT !.Resource.Type = requestParts[1]], err |-> NoError]
          [] n = 2 ->
               [request |-> [r EXCEPT !.Resource.Type = requestParts[1],
                                      !.Resource.ID = requestParts[2]],
                err |-> NoError]
          [] n = 3 ->
               [request |-> [r EXCEPT !.Resource.Type = requestParts[1],
                                      !.Resource.ID = requestParts[2],
                                      !.RelationshipType = requestParts[3]],
                err |-> NoError]
          [] n = 4 ->
               IF requestParts[3] # relationshipsRequest
               THEN [request |-> NilRequest,
                     err |-> PathFormatError(relationshipsRequest, requestParts[3])]
               ELSE [request |-> [r EXCEPT !.Resource.Type = requestParts[1],
                                           !.Resource.ID = requestParts[2],
                                           !.RelationshipType = requestParts[4]],
                     err |-> NoError]
          [] OTHER -> [request |-> NilRequest, err |-> UnknownPathError(p)]

classifyPathMutLenient(requestParts, p) ==
    LET n == Len(requestParts)
        r == NewRequest
    IN  CASE n = 1 ->
               [request |-> [r EXCEPT !.Resource.Type = requestParts[1]], err |-> NoError]
          [] n = 2 ->
               [request |-> [r EXCEPT !.Resource.Type = requestParts[1],
                                      !.Resource.ID = requestParts[2]],
                err |-> NoError]
          [] n = 3 ->
               [request |-> [r EXCEPT !.Resource.Type = requestParts[1],
                                      !.Resource.ID = requestParts[2],
                                      !.RelatedResourceType = requestParts[3]],
                err |-> NoError]
          [] n = 4 ->
               [request |-> [r EXCEPT !.Resource.Type = requestParts[1],
                                      !.Resource.ID = requestParts[2],
                                      !.RelationshipType = requestParts[4]],
                err |-> NoError]
          [] OTHER -> [request |-> NilRequest, err |-> UnknownPathError(p)]

classifyPathMutBoth(requestParts, p) ==
    LET n == Len(requestParts)
        r == NewRequest
    IN  CASE n = 1 ->
               [request |-> [r EXCEPT !.Resource.Type = requestParts[1]], err |-> NoError]
          [] n = 2 ->
               [request |-> [r EXCEPT !.Resource.Type = requestParts[1],
                                      !.Resource.ID = requestParts[2]],
                err |-> NoError]
          [] n = 3 ->
               [request |-> [r EXCEPT !.Resource.Type = requestParts[1],
                                      !.Resource.ID = requestParts[2],
                                      !.RelatedResourceType = requestParts[3]],
                err |-> NoError]
          [] n = 4 ->
               IF requestParts[3] # relationshipsRequest
               THEN [request |-> NilRequest,
                     err |-> PathFormatError(relationshipsRequest, requestParts[3])]
               ELSE [request |-> [r EXCEPT !.Resource.Type = requestParts[1],
                                           !.Resource.ID = requestParts[2],
                                           !.RelatedResourceType = requestParts[3],
                                           !.RelationshipType = requestParts[4]],
                     err |-> NoError]
          [] OTHER -> [request |-> NilRequest, err |-> UnknownPathError(p)]

\* the switch of parsePath over len(requestParts)
classifyPath(requestParts, p) ==
    LET n == Len(requestParts)
        r == NewRequest
    IN  CASE n = 1 ->
               [request |-> [r EXCEPT !.Resource.Type = requestParts[1]], err |-> NoError]
          [] n = 2 ->
               [request |-> [r EXCEPT !.Resource.Type = requestParts[1],
                                      !.Resource.ID = requestParts[2]],
                err |-> NoError]
          [] n = 3 ->
               [request |-> [r EXCEPT !.Resource.Type = requestParts[1],
                                      !.Resource.ID = requestParts[2],
                                      !.RelatedResourceType = requestParts[3]],
                err |-> NoError]
          [] n = 4 ->
               IF requestParts[3] # relationshipsRequest
               THEN [request |-> NilRequest,
                     err |-> PathFormatError(relationshipsRequest, requestParts[3])]
               ELSE [request |-> [r EXCEPT !.Resource.Type = requestParts[1],
                                           !.Resource.ID = requestParts[2],
                                           !.RelationshipType = requestParts[4]],
                     err |-> NoError]
          [] OTHER -> [request |-> NilRequest, err |-> UnknownPathError(p)]

\* parsePath: [request, err]
parsePath(rawPath) ==
    LET u == PathUnescape(rawPath)
    IN  IF ~u.ok THEN [request |-> NilRequest, err |-> EscapeError]
        ELSE LET normalized == removeExtraDelimiters(u.s)
             IN  IF normalized = EmptyString \/ (Len(normalized) = 1 /\ normalized[1] = "/")
                 THEN [request |-> NilRequest, err |-> EmptyPathError]
                 ELSE LET p == IF normalized[1] = "/" THEN Tail(normalized) ELSE normalized
                      IN  classifyPath(StringsSplit(p, "/"), p)

----------------------------------------------------------------------------
(* The bracket key extractor.                                              *)

openBracket == "["
closeBracket == "]"
nestedKeyDefMin == 3

NilKeys == [nil |-> TRUE, keys |-> <<>>]

\* the first loop of extractKeys from index i on: the key is malformed, or
\* topKey is complete and rest is the key from its first '[' on (empty if none)
RECURSIVE extractTopKey(_, _, _)
extractTopKey(k, i, top) ==
    IF i > Len(k) THEN [malformed |-> FALSE, topKey |-> top, rest |-> EmptyString]
    ELSE LET c == k[i]
         IN  IF c = closeBracket \/ (i = 1 /\ c = openBracket)
             THEN [malformed |-> TRUE, topKey |-> top, rest |-> EmptyString]
             ELSE IF c = openBracket
             THEN [malformed |-> FALSE, topKey |-> top, rest |-> From(k, i)]
             ELSE extractTopKey(k, i + 1, Append(top, c))

\* the second loop of extractKeys from index i on: [ok, keys]; ok is FALSE
\* where the loop returns (key, nil)
RECURSIVE extractNestedKeys(_, _, _, _, _)
extractNestedKeys(rest, i, opened, nestedKey, keys) ==
    IF i > Len(rest) THEN [ok |-> TRUE, keys |-> keys]
    ELSE LET c == rest[i]
         IN  IF (opened /\ c = openBracket) \/ (~opened /\ c # openBracket)
             THEN [ok |-> FALSE, keys |-> <<>>]
             ELSE IF c = openBracket
             THEN extractNestedKeys(rest, i + 1, TRUE, nestedKey, keys)
             ELSE IF c = closeBracket
             THEN IF Len(nestedKey) = 0
                  THEN [ok |-> FALSE, keys |-> <<>>]
                  ELSE extractNestedKeys(rest, i + 1, FALSE, EmptyString,
                                         Append(keys, nestedKey))
             ELSE extractNestedKeys(rest, i + 1, opened, Append(nestedKey, c), keys)

\* extractKeys: [topKey, nestedKeys]
extractKeys(k) ==
    IF k = EmptyString THEN [topKey |-> k, nestedKeys |-> NilKeys]
    ELSE LET t == extractTopKey(k, 1, EmptyString)
         IN  IF t.malformed \/ t.rest = EmptyString \/ Len(t.rest) < nestedKeyDefMin
             THEN [topKey |-> k, nestedKeys |-> NilKeys]
             ELSE LET n == extractNestedKeys(t.rest, 1, FALSE, EmptyString, <<>>)
                  IN  IF ~n.ok
                      THEN [topKey |-> k, nestedKeys |-> NilKeys]
                      ELSE [topKey |-> t.topKey,
                            nestedKeys |-> [nil |-> FALSE, keys |-> n.keys]]

----------------------------------------------------------------------------
(* The query tokenizer.                                                    *)

\* a Values map is a function from top keys to sequences of Value
NilValues == [nil |-> TRUE, map |-> <<>>]
MakeValues == [nil |-> FALSE, map |-> <<>>]

\* values[topKey], the zero value (no list) when the key is absent
Lookup(m, k) == IF k \in DOMAIN m THEN m[k] ELSE <<>>

\* the head of the loop of ParseValues: the text up to the first '&' or ';'
\* and what is left behind that separator
nextFragment(q) ==
    LET i == IndexAny(q, {"&", ";"})
    IN  IF i > 0 THEN [key |-> SubSeq(q, 1, i - 1), query |-> From(q, i + 1)]
        ELSE [key |-> q, query |-> EmptyString]

splitKeyValueMutLast(fragment) ==
    LET P == {i \in 1..Len(fragment) : fragment[i] = "="}
    IN  IF P = {} THEN [key |-> fragment, value |-> EmptyString]
        ELSE LET i == CHOOSE x \in P : \A y \in P : y <= x
             IN  [key |-> SubSeq(fragment, 1, i - 1), value |-> From(fragment, i + 1)]

\* the key and the value of a fragment: split at its first '='
splitKeyValue(fragment) ==
    LET i == IndexByte(fragment, "=")
    IN  IF i > 0 THEN [key |-> SubSeq(fragment, 1, i - 1), value |-> From(fragment, i + 1)]
        ELSE [key |-> fragment, value |-> EmptyString]

storeValueMutReplace(m, kv) ==
    [k \in DOMAIN m \cup {kv.TopLevelKey} |->
        IF k = kv.TopLevelKey THEN <<kv>> ELSE m[k]]

\* values[topKey] = append(values[topKey], kv), the entry made if absent
storeValue(m, kv) ==
    [k \in DOMAIN m \cup {kv.TopLevelKey} |->
        IF k = kv.TopLevelKey THEN Append(Lookup(m, k), kv) ELSE m[k]]

\* the loop of ParseValues over what is left of the query
RECURSIVE parseValuesLoop(_, _)
parseValuesLoop(q, m) ==
    IF q = EmptyString THEN m
    ELSE LET f == nextFragment(q)
         IN  IF f.key = EmptyString THEN parseValuesLoop(f.query, m)
             ELSE LET kv == splitKeyValue(f.key)
                      e == extractKeys(kv.key)
                  IN  parseValuesLoop(f.query,
                          storeValue(m, [TopLevelKey |-> e.topKey,
                                         NestedKeys |-> e.nestedKeys,
                                         Value |-> kv.value]))

\* ParseValues: [values, err]
ParseValues(rawQuery) ==
    LET u == QueryUnescape(rawQuery)
    IN  IF ~u.ok THEN [values |-> NilValues, err |-> QueryEscapeError]
        ELSE LET q == IF u.s # EmptyString /\ u.s[1] = "?" THEN Tail(u.s) ELSE u.s
             IN  [values |-> [MakeValues EXCEPT !.map = parseValuesLoop(q, <<>>)],
                  err |-> NoError]

----------------------------------------------------------------------------
(* The projection builders.                                                *)

fieldsDelimiter == ","
pageKeyword == <<"p", "a", "g", "e">>
sortKeyword == <<"s", "o", "r", "t">>
filterKeyword == <<"f", "i", "l", "t", "e", "r">>
includeKeyword == <<"i", "n", "c", "l", "u", "d", "e">>
fieldsKeyword == <<"f", "i", "e", "l", "d", "s">>

\* len(val.NestedKeys): 0 for a nil slice
LenNestedKeys(val) == Len(val.NestedKeys.keys)

\* the first index of the list whose element has the relation rel, 0 if none
IndexOfRelation(list, rel) ==
    IF \E i \in 1..Len(list) : list[i].Relation = rel
    THEN CHOOSE i \in 1..Len(list) :
             list[i].Relation = rel /\ \A j \in 1..(i - 1) : list[j].Relation # rel
    ELSE 0

relationDelimiter == ","
nestedRelationDelimiter == "."

NilIncludes == [nil |-> TRUE, list |-> <<>>]

\* Include{Relation: rel}: its Includes are nil (the empty sequence)
NewInclude(rel) == [Relation |-> rel, Includes |-> <<>>]

\* expandInclude: the node root after the chain queryPart has been put under it
RECURSIVE expandInclude(_, _)
expandInclude(root, queryPart) ==
    IF queryPart = EmptyString THEN root
    ELSE LET cur == split(queryPart, nestedRelationDelimiter, TRUE)[1]
             rest == split(queryPart, nestedRelationDelimiter, TRUE)[2]
             i == IndexOfRelation(root.Includes, cur)
         IN  IF root.Includes = <<>>
             THEN [root EXCEPT !.Includes = <<expandInclude(NewInclude(cur), rest)>>]
             ELSE IF i > 0
             THEN [root EXCEPT !.Includes[i] = expandInclude(@, rest)]
             ELSE [root EXCEPT !.Includes = Append(@, expandInclude(NewInclude(cur), rest))]

\* the body of the inner loop of initIncludes for the chain cur: the root is
\* looked up by its relation, or made and put last, and the chain expanded
includeChain(ordered, cur) ==
    LET rootKey == split(cur, nestedRelationDelimiter, TRUE)[1]
        next == split(cur, nestedRelationDelimiter, TRUE)[2]
        i == IndexOfRelation(ordered, rootKey)
    IN  IF i > 0
        THEN [ordered EXCEPT ![i] = expandInclude(@, next)]
        ELSE Append(ordered, expandInclude(NewInclude(rootKey), next))

\* the inner loop of initIncludes: for cur != "" { ...; cur, rest = split(rest, ',') }
RECURSIVE includeChains(_, _, _)
includeChains(ordered, cur, rest) ==
    IF cur = EmptyString THEN ordered
    ELSE includeChains(includeChain(ordered, cur),
                       split(rest, relationDelimiter, TRUE)[1],
                       split(rest, relationDelimiter, TRUE)[2])

\* the outer loop of initIncludes over incValues[i..]
RECURSIVE includeValues(_, _, _)
includeValues(incValues, i, ordered) ==
    IF i > Len(incValues) THEN ordered
    ELSE LET val == incValues[i]
         IN  IF LenNestedKeys(val) > 0 \/ val.Value = EmptyString
             THEN includeValues(incValues, i + 1, ordered)
             ELSE includeValues(incValues, i + 1,
                      includeChains(ordered,
                                    split(val.Value, relationDelimiter, TRUE)[1],
                                    split(val.Value, relationDelimiter, TRUE)[2]))

\* initIncludes on the map of a Values
initIncludes(m) ==
    IF includeKeyword \notin DOMAIN m THEN NilIncludes
    ELSE [nil |-> FALSE, list |-> includeValues(m[includeKeyword], 1, <<>>)]

sortDelimiter == ","
sortDescChar == "-"
OrderAsc == 0
OrderDesc == 1

NilSort == [nil |-> TRUE, list |-> <<>>]

\* the body of the inner loop of initSort for the non-empty field cur
sortField(st, cur) ==
    LET order == IF cur[1] = sortDescChar THEN OrderDesc ELSE OrderAsc
        name == IF cur[1] = sortDescChar THEN Tail(cur) ELSE cur
    IN  IF name \in st.duplicates THEN st
        ELSE IF name = EmptyString THEN st
        ELSE [sort |-> Append(st.sort, [FieldName |-> name, Order |-> order]),
              duplicates |-> st.duplicates \cup {name},
              returnSort |-> TRUE]

\* the inner loop of initSort: for cur != "" { ...; cur, rest = split(rest, ',') }
RECURSIVE sortFields(_, _, _)
sortFields(st, cur, rest) ==
    IF cur = EmptyString THEN st
    ELSE sortFields(sortField(st, cur),
                    split(rest, sortDelimiter, TRUE)[1],
                    split(rest, sortDelimiter, TRUE)[2])

\* the outer loop of initSort over sortValues[i..]
RECURSIVE sortValuesLoop(_, _, _)
sortValuesLoop(sortValues, i, st) ==
    IF i > Len(sortValues) THEN st
    ELSE LET val == sortValues[i]
         IN  IF val.Value = EmptyString \/ LenNestedKeys(val) # 0
             THEN sortValuesLoop(sortValues, i + 1, st)
             ELSE sortValuesLoop(sortValues, i + 1,
                      sortFields(st,
                                 split(val.Value, sortDelimiter, TRUE)[1],
                                 split(val.Value, sortDelimiter, TRUE)[2]))

\* initSort on the map of a Values
initSort(m) ==
    IF sortKeyword \notin DOMAIN m THEN NilSort
    ELSE LET st == sortValuesLoop(m[sortKeyword], 1,
                       [sort |-> <<>>, duplicates |-> {}, returnSort |-> FALSE])
         IN  IF st.returnSort THEN [nil |-> FALSE, list |-> st.sort] ELSE NilSort

NilFields == [nil |-> TRUE, map |-> <<>>]

\* the loop of initResourceFields over the items of one value: the items to
\* append and the names seen so far for the resource type
RECURSIVE uniqueItems(_, _, _, _)
uniqueItems(list, i, toAppend, byResource) ==
    IF i > Len(list) THEN [toAppend |-> toAppend, byResource |-> byResource]
    ELSE IF list[i] = EmptyString \/ list[i] \in byResource
    THEN uniqueItems(list, i + 1, toAppend, byResource)
    ELSE uniqueItems(list, i + 1, Append(toAppend, list[i]), byResource \cup {list[i]})

\* the loop of initResourceFields over fieldsValues[i..]
RECURSIVE resourceFieldsLoop(_, _, _)
resourceFieldsLoop(fieldsValues, i, st) ==
    IF i > Len(fieldsValues) THEN st
    ELSE LET val == fieldsValues[i]
         IN  IF val.Value = EmptyString \/ LenNestedKeys(val) # 1
             THEN resourceFieldsLoop(fieldsValues, i + 1, st)
             ELSE LET resourceType == val.NestedKeys.keys[1]
                      seen == IF resourceType \in DOMAIN st.duplicates
                              THEN st.duplicates[resourceType] ELSE {}
                      u == uniqueItems(StringsSplit(val.Value, fieldsDelimiter), 1, <<>>, seen)
                      dups == [k \in DOMAIN st.duplicates \cup {resourceType} |->
                                  IF k = resourceType THEN u.byResource
                                  ELSE st.duplicates[k]]
                  IN  IF Len(u.toAppend) = 0
                      THEN resourceFieldsLoop(fieldsValues, i + 1,
                               [st EXCEPT !.duplicates = dups])
                      ELSE resourceFieldsLoop(fieldsValues, i + 1,
                               [fields |-> [k \in DOMAIN st.fields \cup {resourceType} |->
                                               IF k = resourceType
                                               THEN Lookup(st.fields, k) \o u.toAppend
                                               ELSE st.fields[k]],
                                duplicates |-> dups,
                                returnFields |-> TRUE])

\* initResourceFields without the returnFields flag: the map is returned as it is
initResourceFieldsMutNoFlag(m) ==
    IF fieldsKeyword \notin DOMAIN m THEN NilFields
    ELSE [nil |-> FALSE,
          map |-> resourceFieldsLoop(m[fieldsKeyword], 1,
                      [fields |-> <<>>, duplicates |-> <<>>, returnFields |-> FALSE]).fields]

\* initResourceFields on the map of a Values
initResourceFields(m) ==
    IF fieldsKeyword \notin DOMAIN m THEN NilFields
    ELSE LET st == resourceFieldsLoop(m[fieldsKeyword], 1,
                       [fields |-> <<>>, duplicates |-> <<>>, returnFields |-> FALSE])
         IN  IF st.returnFields THEN [nil |-> FALSE, map |-> st.fields] ELSE NilFields

NilFilters == [nil |-> TRUE, list |-> <<>>]

\* the loop of initFilters over filterValues[i..]
RECURSIVE filtersLoop(_, _, _)
filtersLoop(filterValues, i, filters) ==
    IF i > Len(filterValues) THEN filters
    ELSE LET val == filterValues[i]
         IN  IF val.Value = EmptyString \/ LenNestedKeys(val) # 1
             THEN filtersLoop(filterValues, i + 1, filters)
             ELSE filtersLoop(filterValues, i + 1,
                      Append(filters, [FieldName |-> val.NestedKeys.keys[1],
                                       Predicate |-> val.Value]))

\* initFilters keeping, as initSort does, the first Filter of each field name only
initFiltersMutDedup(m) ==
    IF filterKeyword \notin DOMAIN m THEN NilFilters
    ELSE LET all == filtersLoop(m[filterKeyword], 1, <<>>)
             F == {i \in 1..Len(all) :
                      \A j \in 1..(i - 1) : all[j].FieldName # all[i].FieldName}
             filters == [k \in 1..Cardinality(F) |->
                            all[CHOOSE x \in F : Cardinality({y \in F : y < x}) = k - 1]]
         IN  IF filters # <<>> THEN [nil |-> FALSE, list |-> filters] ELSE NilFilters

\* initFilters on the map of a Values; returnFilters is set with the first append
initFilters(m) ==
    IF filterKeyword \notin DOMAIN m THEN NilFilters
    ELSE LET filters == filtersLoop(m[filterKeyword], 1, <<>>)
         IN  IF filters # <<>> THEN [nil |-> FALSE, list |-> filters] ELSE NilFilters

NilPage == [nil |-> TRUE]

\* new(Page)
NewPage ==
    [nil |-> FALSE, Size |-> EmptyString, Number |-> EmptyString, Limit |-> EmptyString,
     Offset |-> EmptyString, Cursor |-> EmptyString]

\* the loop of initPage over pageValues[i..]
RECURSIVE pageLoop(_, _, _)
pageLoop(pageValues, i, st) ==
    IF i > Len(pageValues) THEN st
    ELSE LET val == pageValues[i]
             k == val.NestedKeys.keys[1]
             set(p) == [returnPage |-> TRUE, page |-> p]
         IN  IF LenNestedKeys(val) # 1 THEN pageLoop(pageValues, i + 1, st)
             ELSE pageLoop(pageValues, i + 1,
                      CASE k = <<"s", "i", "z", "e">> ->
                               set([st.page EXCEPT !.Size = val.Value])
                        [] k = <<"n", "u", "m", "b", "e", "r">> ->
                               set([st.page EXCEPT !.Number = val.Value])
                        [] k = <<"l", "i", "m", "i", "t">> ->
                               set([st.page EXCEPT !.Limit = val.Value])
                        [] k = <<"o", "f", "f", "s", "e", "t">> ->
                               set([st.page EXCEPT !.Offset = val.Value])
                        [] k = <<"c", "u", "r", "s", "o", "r">> ->
                               set([st.page EXCEPT !.Cursor = val.Value])
                        [] OTHER -> st)

\* initPage without the returnPage flag: the page is returned as it is
initPageMutNoFlag(m) ==
    IF pageKeyword \notin DOMAIN m THEN NilPage
    ELSE pageLoop(m[pageKeyword], 1, [returnPage |-> FALSE, page |-> NewPage]).page

\* initPage on the map of a Values
initPage(m) ==
    IF pageKeyword \notin DOMAIN m THEN NilPage
    ELSE LET st == pageLoop(m[pageKeyword], 1, [returnPage |-> FALSE, page |-> NewPage])
         IN  IF st.returnPage THEN st.page ELSE NilPage

parseQueryResultMutIgnoreErr(v) ==
    [query |-> [nil |-> FALSE,
                Includes |-> initIncludes(v.values.map),
                Fields |-> initResourceFields(v.values.map),
                Sort |-> initSort(v.values.map),
                Filters |-> initFilters(v.values.map),
                Page |-> initPage(v.values.map),
                Values |-> v.values],
     err |-> NoError]

\* ParseQuery with a sort builder that takes its key out of the multimap
parseQueryResultMutConsume(v) ==
    IF ~v.err.nil THEN [query |-> NilQuery, err |-> v.err]
    ELSE [query |-> [nil |-> FALSE,
                     Includes |-> initIncludes(v.values.map),
                     Fields |-> initResourceFields(v.values.map),
                     Sort |-> initSort(v.values.map),
                     Filters |-> initFilters(v.values.map),
                     Page |-> initPage(v.values.map),
                     Values |-> [v.values EXCEPT
                                    !.map = [k \in DOMAIN v.values.map \ {sortKeyword} |->
                                                v.values.map[k]]]],
          err |-> NoError]

\* the result of ParseQuery from the result v of ParseValues
parseQueryResult(v) ==
    IF ~v.err.nil THEN [query |-> NilQuery, err |-> v.err]
    ELSE [query |-> [nil |-> FALSE,
                     Includes |-> initIncludes(v.values.map),
                     Fields |-> initResourceFields(v.values.map),
                     Sort |-> initSort(v.values.map),
                     Filters |-> initFilters(v.values.map),
                     Page |-> initPage(v.values.map),
                     Values |-> v.values],
          err |-> NoError]

\* ParseQuery: [query, err]
ParseQuery(rawQuery) == parseQueryResult(ParseValues(rawQuery))

----------------------------------------------------------------------------
(* The state before any call: every argument empty, every result nil.      *)

Init ==
    /\ pc = "input"
    /\ typed = 0
    /\ path = EmptyString
    /\ request = NilRequest
    /\ err = NoError
    /\ key = EmptyString
    /\ topKey = EmptyString
    /\ nestedKeys = NilKeys
    /\ query = EmptyString
    /\ values = NilValues
    /\ parsed = NilQuery
    /\ includes = NilIncludes
    /\ sort = NilSort
    /\ resourceFields = NilFields
    /\ queryFilters = NilFilters
    /\ queryPage = NilPage
    /\ params = EmptyString
    /\ getArgs = [topKey |-> EmptyString, nestedKeys |-> <<>>]
    /\ got = EmptyString
    /\ cleaned = EmptyString
    /\ isRelationship = FALSE
    /\ isRelatedResource = FALSE

----------------------------------------------------------------------------
(* The path classifier: a caller writes a path piece by piece and calls    *)
(* parsePath on it.                                                        *)

\* the pieces a caller composes a path of: a separator, a segment with and
\* without its separator, the literal, an escaped separator, a broken escape
PathPieces ==
    {<<"/">>, <<"a", "/">>, <<"b">>, relationshipsRequest \o <<"/">>,
     <<"%", "2", "F">>, <<"%">>}

TypePath(piece) ==
    /\ pc = "input"
    /\ typed < MaxPathPieces
    /\ path' = path \o piece
    /\ typed' = typed + 1
    /\ UNCHANGED <<pc, request, err, key, topKey, nestedKeys, query, values, parsed,
                   includes, sort,
                   resourceFields, queryFilters, queryPage, params, getArgs, got, cleaned,
                   isRelationship, isRelatedResource>>

CallParsePath ==
    /\ pc = "input"
    /\ LET r == parsePath(path)
       IN  /\ request' = r.request
           /\ err' = r.err
    /\ pc' = "parsePath"
    /\ UNCHANGED <<typed, path, key, topKey, nestedKeys, query, values, parsed,
                   includes, sort,
                   resourceFields, queryFilters, queryPage, params, getArgs, got, cleaned,
                   isRelationship, isRelatedResource>>

NextPath ==
    \/ \E piece \in PathPieces : TypePath(piece)
    \/ CallParsePath

SpecPath == Init /\ [][NextPath]_vars

----------------------------------------------------------------------------
(* What the claims say about a path, stated without the code's operators.  *)

\* every % of s starts an escape of two hexadecimal digits
Decodable(s) ==
    \A i \in 1..Len(s) :
        s[i] = "%" => i + 2 <= Len(s) /\ ishex(s[i + 1]) /\ ishex(s[i + 2])

\* the i-th smallest element of the finite set S of integers
Nth(S, i) == CHOOSE x \in S : Cardinality({y \in S : y < x}) = i - 1

\* s with every maximal run of separators replaced by one separator: as long
\* as two separators are adjacent, one of them is removed
RECURSIVE Collapsed(_)
Collapsed(s) ==
    IF \E i \in 1..(Len(s) - 1) : s[i] = "/" /\ s[i + 1] = "/"
    THEN LET i == CHOOSE j \in 1..(Len(s) - 1) : s[j] = "/" /\ s[j + 1] = "/"
         IN  Collapsed(SubSeq(s, 1, i) \o SubSeq(s, i + 2, Len(s)))
    ELSE s

\* s without one leading separator
Stripped(s) == IF s # <<>> /\ s[1] = "/" THEN SubSeq(s, 2, Len(s)) ELSE s

\* the pieces of s between the characters of seps, empty pieces included
PiecesBetween(s, seps) ==
    LET P == {i \in 1..Len(s) : s[i] \in seps}
        lo(k) == IF k = 1 THEN 1 ELSE Nth(P, k - 1) + 1
        hi(k) == IF k = Cardinality(P) + 1 THEN Len(s) ELSE Nth(P, k) - 1
    IN  [k \in 1..(Cardinality(P) + 1) |-> SubSeq(s, lo(k), hi(k))]

\* the decoded, normalized path of the last parsePath call
NormalizedPath == Collapsed(PathUnescape(path).s)

\* its slash-separated segments, one leading separator stripped
PathSegments == PiecesBetween(Stripped(NormalizedPath), {"/"})

FieldsAre(type, id, relationship, related) ==
    /\ request.Resource.Type = type
    /\ request.Resource.ID = id
    /\ request.RelationshipType = relationship
    /\ request.RelatedResourceType = related

\* C1: for every path that parsePath accepts, the Request is given by the
\* segment-count table: 1 segment sets Resource.Type; 2 segments Type and ID;
\* 3 segments Type, ID and RelatedResourceType; 4 segments (the third being
\* 'relationships') Type, ID and RelationshipType = fourth segment; every
\* other field is empty and Query is nil.
C1_SegmentTable ==
    (pc = "parsePath" /\ err.nil) =>
        LET segs == PathSegments
            n == Len(segs)
        IN  /\ ~request.nil
            /\ request.Query.nil
            /\ n \in 1..4
            /\ n = 1 => FieldsAre(segs[1], EmptyString, EmptyString, EmptyString)
            /\ n = 2 => FieldsAre(segs[1], segs[2], EmptyString, EmptyString)
            /\ n = 3 => FieldsAre(segs[1], segs[2], EmptyString, segs[3])
            /\ n = 4 => /\ segs[3] = relationshipsRequest
                        /\ FieldsAre(segs[1], segs[2], segs[4], EmptyString)

\* a relationship request (4 segments) whose path held an escaped separator
\* has been classified
C1_Witness ==
    /\ pc = "parsePath"
    /\ err.nil
    /\ Len(PathSegments) = 4
    /\ request.RelationshipType = <<"b">>
    /\ request.Resource.Type # request.Resource.ID
    /\ path # PathUnescape(path).s

\* the cases in which the claim says parsePath fails
PathMustFail ==
    \/ ~Decodable(path)
    \/ NormalizedPath = EmptyString
    \/ NormalizedPath = <<"/">>
    \/ Len(PathSegments) >= 5
    \/ Len(PathSegments) = 4 /\ PathSegments[3] # relationshipsRequest

\* C2: parsePath returns an error and a nil Request exactly when the path
\* cannot be percent-decoded, is empty or only a separator once decoded and
\* normalized, has 5 or more segments, or has 4 segments the third of which
\* is not 'relationships' (the error then carries the literal and the
\* segment received); otherwise it returns a non-nil Request and no error.
C2_PathErrors ==
    pc = "parsePath" =>
        /\ ~err.nil <=> PathMustFail
        /\ ~err.nil <=> request.nil
        /\ (Decodable(path) /\ Len(PathSegments) = 4 /\ PathSegments[3] # relationshipsRequest)
               => /\ err.kind = "path format"
                  /\ err.args = <<relationshipsRequest, PathSegments[3]>>

\* a 4-segment path whose third segment is not the literal has been rejected
C2_Witness ==
    /\ pc = "parsePath"
    /\ ~err.nil
    /\ request.nil
    /\ Decodable(path)
    /\ Len(PathSegments) = 4
    /\ err.kind = "path format"
    /\ err.args[2] # relationshipsRequest

----------------------------------------------------------------------------
(* The bracket key extractor: a caller writes a token character by         *)
(* character and calls extractKeys on it.                                  *)

KeyAlphabet == {"a", "b", openBracket, closeBracket}

TypeKey(c) ==
    /\ pc = "input"
    /\ typed < MaxKeyLen
    /\ key' = Append(key, c)
    /\ typed' = typed + 1
    /\ UNCHANGED <<pc, path, request, err, topKey, nestedKeys, query, values, parsed,
                   includes, sort,
                   resourceFields, queryFilters, queryPage, params, getArgs, got, cleaned,
                   isRelationship, isRelatedResource>>

CallExtractKeys ==
    /\ pc = "input"
    /\ LET r == extractKeys(key)
       IN  /\ topKey' = r.topKey
           /\ nestedKeys' = r.nestedKeys
    /\ pc' = "extractKeys"
    /\ UNCHANGED <<typed, path, request, err, key, query, values, parsed, includes, sort,
                   resourceFields, queryFilters, queryPage, params, getArgs, got, cleaned,
                   isRelationship, isRelatedResource>>

NextKeys ==
    \/ \E c \in KeyAlphabet : TypeKey(c)
    \/ CallExtractKeys

SpecKeys == Init /\ [][NextKeys]_vars

\* t is IDENT ('[' NESTED_IDENT ']')+ : as many '[' as ']' and at least one;
\* the first '[' not leading; every '[' closed by the ']' of the same rank
\* with at least one character between them; every ']' but the last directly
\* followed by the next '['; the last ']' ending the token
MatchesKeyGrammar(t) ==
    LET O == {i \in 1..Len(t) : t[i] = "["}
        C == {i \in 1..Len(t) : t[i] = "]"}
        n == Cardinality(O)
    IN  /\ n >= 1
        /\ Cardinality(C) = n
        /\ Nth(O, 1) > 1
        /\ \A k \in 1..n : Nth(O, k) + 1 < Nth(C, k)
        /\ \A k \in 1..(n - 1) : Nth(C, k) + 1 = Nth(O, k + 1)
        /\ Nth(C, n) = Len(t)

\* top followed by every nested key wrapped in brackets
RECURSIVE Bracketed(_, _)
Bracketed(top, keys) ==
    IF keys = <<>> THEN top
    ELSE Bracketed(top \o <<"[">> \o Head(keys) \o <<"]">>, Tail(keys))

HasBracket(t) == \E i \in 1..Len(t) : t[i] \in {"[", "]"}

\* C3: for every token that does not match IDENT ('[' NESTED_IDENT ']')+,
\* extractKeys returns the token unchanged as the top key, with nil nested
\* keys: never a shortened top key, never a partial list of nested keys.
C3_MalformedFallsBack ==
    (pc = "extractKeys" /\ ~MatchesKeyGrammar(key)) =>
        /\ topKey = key
        /\ nestedKeys.nil

\* C4: a non-nil nested-key list returned by extractKeys is non-empty, its
\* keys are non-empty and free of brackets, the top key is free of brackets,
\* and top key plus bracketed nested keys give back the token; with nil
\* nested keys the top key is the token.
C4_RoundTrip ==
    pc = "extractKeys" =>
        /\ ~nestedKeys.nil =>
              /\ nestedKeys.keys # <<>>
              /\ \A i \in 1..Len(nestedKeys.keys) :
                     nestedKeys.keys[i] # EmptyString /\ ~HasBracket(nestedKeys.keys[i])
              /\ ~HasBracket(topKey)
              /\ Bracketed(topKey, nestedKeys.keys) = key
        /\ nestedKeys.nil => topKey = key

----------------------------------------------------------------------------
(* The query tokenizer: a caller writes a query string piece by piece and  *)
(* calls ParseValues on it.                                                *)

\* a key character, the '=' sign, both separators, a nested key, and a '%'
\* (which starts an escape when two 'a' follow, and is broken otherwise)
QueryPieces == {<<"a">>, <<"=">>, <<"&">>, <<";">>, <<"[", "b", "]">>, <<"%">>}

TypeQuery(piece) ==
    /\ pc = "input"
    /\ typed < MaxQueryPieces
    /\ query' = query \o piece
    /\ typed' = typed + 1
    /\ UNCHANGED <<pc, path, request, err, key, topKey, nestedKeys, values, parsed,
                   includes, sort,
                   resourceFields, queryFilters, queryPage, params, getArgs, got, cleaned,
                   isRelationship, isRelatedResource>>

CallParseValues ==
    /\ pc = "input"
    /\ LET r == ParseValues(query)
       IN  /\ values' = r.values
           /\ err' = r.err
    /\ pc' = "ParseValues"
    /\ UNCHANGED <<typed, path, request, key, topKey, nestedKeys, query, parsed,
                   includes, sort,
                   resourceFields, queryFilters, queryPage, params, getArgs, got, cleaned,
                   isRelationship, isRelatedResource>>

NextValues ==
    \/ \E piece \in QueryPieces : TypeQuery(piece)
    \/ CallParseValues

SpecValues == Init /\ [][NextValues]_vars

\* the decoded query string, its leading '?' left out
DecodedQuery ==
    LET d == QueryUnescape(query).s
    IN  IF d # <<>> /\ d[1] = "?" THEN SubSeq(d, 2, Len(d)) ELSE d

IsNonEmpty(f) == f # <<>>

\* the non-empty fragments of the decoded query string: the maximal pieces
\* between separators
Fragments == SelectSeq(PiecesBetween(DecodedQuery, {"&", ";"}), IsNonEmpty)

\* the Value record the claim describes for the fragment f: the key is the
\* text before the first '=', the value all of the text behind it
RecordOf(f) ==
    LET E == {i \in 1..Len(f) : f[i] = "="}
        k == IF E = {} THEN f ELSE SubSeq(f, 1, Nth(E, 1) - 1)
        v == IF E = {} THEN <<>> ELSE SubSeq(f, Nth(E, 1) + 1, Len(f))
        e == extractKeys(k)
    IN  [TopLevelKey |-> e.topKey, NestedKeys |-> e.nestedKeys, Value |-> v]

\* how many elements of the sequence s equal x
Occurrences(s, x) == Cardinality({i \in 1..Len(s) : s[i] = x})

\* the records stored in the map m that equal r
Stored(m, r) == Occurrences(Lookup(m, r.TopLevelKey), r)

\* C5: ParseValues produces exactly one Value record per non-empty fragment
\* of the decoded string (fragments lie between '&' and ';', runs of
\* separators give no record); the key is the text before the first '=' and
\* the value everything behind it, a fragment without '=' being a key with
\* the empty value.
C5_OneRecordPerFragment ==
    (pc = "ParseValues" /\ err.nil) =>
        LET recs == [i \in 1..Len(Fragments) |-> RecordOf(Fragments[i])]
        IN  /\ \A i \in 1..Len(recs) : Stored(values.map, recs[i]) = Occurrences(recs, recs[i])
            /\ \A k \in DOMAIN values.map :
                   \A j \in 1..Len(values.map[k]) :
                       Occurrences(recs, values.map[k][j]) >= 1

\* a query with a run of separators, a fragment with two '=' and a bare key
\* has been tokenized
C5_Witness ==
    /\ pc = "ParseValues"
    /\ err.nil
    /\ Len(Fragments) = 2
    /\ Len(PiecesBetween(DecodedQuery, {"&", ";"})) > 2
    /\ \E i \in 1..2 : Occurrences(RecordOf(Fragments[i]).Value, "=") >= 1
    /\ \E i \in 1..2 : Occurrences(Fragments[i], "=") = 0

\* the top key that the claim gives the fragment f
TopKeyOf(f) == RecordOf(f).TopLevelKey

\* C6: in the multimap returned by ParseValues every Value under key K has
\* TopLevelKey K, no key maps to an empty list, and the Values of a key are
\* those of its fragments in the order of the query string, repeated keys
\* being accumulated.
C6_MultimapOrder ==
    (pc = "ParseValues" /\ err.nil) =>
        /\ DOMAIN values.map = {TopKeyOf(Fragments[i]) : i \in 1..Len(Fragments)}
        /\ \A k \in DOMAIN values.map :
               LET Under(f) == TopKeyOf(f) = k
                   mine == SelectSeq(Fragments, Under)
               IN  /\ values.map[k] # <<>>
                   /\ \A j \in 1..Len(values.map[k]) : values.map[k][j].TopLevelKey = k
                   /\ values.map[k] = [j \in 1..Len(mine) |-> RecordOf(mine[j])]

\* a key with brackets and the same key without have been stored under one
\* top key, in the order of the query string
C6_Witness ==
    /\ pc = "ParseValues"
    /\ err.nil
    /\ \E k \in DOMAIN values.map :
           /\ Len(values.map[k]) = 2
           /\ values.map[k][1].NestedKeys.nil
           /\ ~values.map[k][2].NestedKeys.nil

----------------------------------------------------------------------------
(* The assembler: a caller writes a query string fragment by fragment, of  *)
(* the keys the builders read, and calls ParseValues or ParseQuery on it.  *)

QueryKeys == {sortKeyword, includeKeyword, fieldsKeyword, filterKeyword, pageKeyword}

\* no nested key, one nested key, a bracket that is never closed
KeySuffixes == {<<>>, <<"[", "s", "i", "z", "e", "]">>, <<"[">>}

\* an empty value, a value, a broken escape
ValueParts == {<<"=">>, <<"=", "a">>, <<"=", "%">>}

TypeFragment(k, suffix, v) ==
    /\ pc = "input"
    /\ typed < MaxFragments
    /\ query' = (IF query = EmptyString THEN query ELSE Append(query, "&")) \o k \o suffix \o v
    /\ typed' = typed + 1
    /\ UNCHANGED <<pc, path, request, err, key, topKey, nestedKeys, values, parsed,
                   includes, sort,
                   resourceFields, queryFilters, queryPage, params, getArgs, got, cleaned,
                   isRelationship, isRelatedResource>>

CallParseQuery ==
    /\ pc = "input"
    /\ LET r == ParseQuery(query)
       IN  /\ parsed' = r.query
           /\ err' = r.err
    /\ pc' = "ParseQuery"
    /\ UNCHANGED <<typed, path, request, key, topKey, nestedKeys, query, values,
                   includes, sort,
                   resourceFields, queryFilters, queryPage, params, getArgs, got, cleaned,
                   isRelationship, isRelatedResource>>

NextQuery ==
    \/ \E k \in QueryKeys, suffix \in KeySuffixes, v \in ValueParts : TypeFragment(k, suffix, v)
    \/ CallParseValues
    \/ CallParseQuery

SpecQuery == Init /\ [][NextQuery]_vars

\* C7: ParseValues and ParseQuery return an error, with a nil result, if and
\* only if the query string cannot be percent-decoded; every decodable input
\* (malformed bracket keys, wrong nested-key arity, empty values included)
\* gives a non-nil result and no error, and the empty string an empty,
\* non-nil multimap.
C7_OnlyDecodeErrors ==
    /\ pc = "ParseValues" =>
           /\ ~err.nil <=> ~Decodable(query)
           /\ ~err.nil <=> values.nil
           /\ query = EmptyString => (~values.nil /\ DOMAIN values.map = {})
    /\ pc = "ParseQuery" =>
           /\ ~err.nil <=> ~Decodable(query)
           /\ ~err.nil <=> parsed.nil

\* ParseQuery has returned a Query for a string with a malformed bracket key
\* and a fields, filter or page key of wrong arity
C7_Witness ==
    /\ pc = "ParseQuery"
    /\ err.nil
    /\ ~parsed.nil
    /\ \E k \in DOMAIN parsed.Values.map : HasBracket(k)
    /\ \E k \in {fieldsKeyword, filterKeyword, pageKeyword} \cap DOMAIN parsed.Values.map :
           \E i \in 1..Len(parsed.Values.map[k]) : LenNestedKeys(parsed.Values.map[k][i]) # 1

----------------------------------------------------------------------------
(* The include builder: a caller puts Values under the include key of a    *)
(* Values map, writes their value strings and calls initIncludes.          *)

\* the nested keys a written Value carries: none (nil), or one
ValueNestedKeys == {NilKeys, [nil |-> FALSE, keys |-> << <<"a">> >>]}

\* the map m with one more Value, of an empty value string, under the key kw
addValue(m, kw, nested) ==
    storeValue(m, [TopLevelKey |-> kw, NestedKeys |-> nested, Value |-> EmptyString])

\* the map m with the character c put at the end of the last Value under kw
typeValue(m, kw, c) ==
    [m EXCEPT ![kw][Len(m[kw])].Value = Append(@, c)]

IncludeAlphabet == {"a", "b", relationDelimiter, nestedRelationDelimiter}

NewIncludeValue(nested) ==
    /\ pc = "input"
    /\ typed < MaxIncludePieces
    /\ values' = [nil |-> FALSE, map |-> addValue(values.map, includeKeyword, nested)]
    /\ typed' = typed + 1
    /\ UNCHANGED <<pc, path, request, err, key, topKey, nestedKeys, query, parsed,
                   includes, sort,
                   resourceFields, queryFilters, queryPage, params, getArgs, got, cleaned,
                   isRelationship, isRelatedResource>>

TypeInclude(c) ==
    /\ pc = "input"
    /\ typed < MaxIncludePieces
    /\ includeKeyword \in DOMAIN values.map
    /\ values' = [values EXCEPT !.map = typeValue(@, includeKeyword, c)]
    /\ typed' = typed + 1
    /\ UNCHANGED <<pc, path, request, err, key, topKey, nestedKeys, query, parsed,
                   includes, sort,
                   resourceFields, queryFilters, queryPage, params, getArgs, got, cleaned,
                   isRelationship, isRelatedResource>>

CallInitIncludes ==
    /\ pc = "input"
    /\ includes' = initIncludes(values.map)
    /\ pc' = "initIncludes"
    /\ UNCHANGED <<typed, path, request, err, key, topKey, nestedKeys, query, values,
                   parsed, sort,
                   resourceFields, queryFilters, queryPage, params, getArgs, got, cleaned,
                   isRelationship, isRelatedResource>>

NextIncludes ==
    \/ \E nested \in ValueNestedKeys : NewIncludeValue(nested)
    \/ \E c \in IncludeAlphabet : TypeInclude(c)
    \/ CallInitIncludes

SpecIncludes == Init /\ [][NextIncludes]_vars

\* a Value the builders accept: no nested keys and a non-empty value string
Accepted(val) == LenNestedKeys(val) = 0 /\ val.Value # EmptyString

\* the lists of a sequence of lists, one after the other
RECURSIVE Flatten(_)
Flatten(ss) == IF ss = <<>> THEN <<>> ELSE Head(ss) \o Flatten(Tail(ss))

\* the comma-separated pieces of the accepted Values of vals, in order
PiecesOfAccepted(vals) ==
    Flatten([i \in 1..Len(vals) |->
                IF Accepted(vals[i]) THEN PiecesBetween(vals[i].Value, {","}) ELSE <<>>])

\* the non-empty relation chains of the accepted include Values, in order,
\* each as the sequence of its dot-separated relation names
AllChains ==
    LET chains == SelectSeq(PiecesOfAccepted(Lookup(values.map, includeKeyword)), IsNonEmpty)
    IN  [i \in 1..Len(chains) |-> PiecesBetween(chains[i], {"."})]

IsPrefix(p, s) == Len(p) <= Len(s) /\ SubSeq(s, 1, Len(p)) = p

\* the position in AllChains of the first chain that goes along the path p of
\* relation names, 0 if no chain does
FirstAppearance(p) ==
    LET S == {i \in 1..Len(AllChains) : IsPrefix(p, AllChains[i])}
    IN  IF S = {} THEN 0 ELSE Nth(S, 1)

\* the nodes of list, which hang under the path p, have different relations
\* and, where they are named, stand in the order of their first appearance,
\* and so below each of them
RECURSIVE UniqueInOrder(_, _)
UniqueInOrder(list, p) ==
    /\ \A i, j \in 1..Len(list) :
           i < j => /\ list[i].Relation # list[j].Relation
                    /\ (list[i].Relation # EmptyString /\ list[j].Relation # EmptyString)
                           => FirstAppearance(Append(p, list[i].Relation))
                                  < FirstAppearance(Append(p, list[j].Relation))
    /\ \A i \in 1..Len(list) :
           UniqueInOrder(list[i].Includes, Append(p, list[i].Relation))

\* C8: in the forest initIncludes returns no two roots and no two children of
\* one node have the same Relation, at every depth, and roots and children
\* stand in the order of their first appearance over the accepted include
\* Values taken in order; a chain of a later Value is merged into the node
\* made earlier.  The order is stated for the relations of a non-empty name.
C8_MergedInOrder ==
    pc = "initIncludes" => UniqueInOrder(includes.list, <<>>)

\* the relation names, in order, lead from a node of list downward
RECURSIVE PathIn(_, _)
PathIn(list, names) ==
    \/ names = <<>>
    \/ \E i \in 1..Len(list) :
           /\ list[i].Relation = Head(names)
           /\ PathIn(list[i].Includes, Tail(names))

\* every node of list, which hangs under the path p, lies on some chain
RECURSIVE OnlyFromChains(_, _)
OnlyFromChains(list, p) ==
    \A i \in 1..Len(list) :
        /\ FirstAppearance(Append(p, list[i].Relation)) > 0
        /\ OnlyFromChains(list[i].Includes, Append(p, list[i].Relation))

NoEmptyName(chain) == \A i \in 1..Len(chain) : chain[i] # EmptyString

\* C9: every non-empty comma-separated chain of every include Value with no
\* nested keys and a non-empty value string, at whatever position it stands
\* in the value (also after an empty chain), is a path of the forest from a
\* root downward; include Values with nested keys or an empty value string
\* contribute nothing.  Stated for the chains whose relation names are all
\* non-empty.
C9_EveryChainRepresented ==
    pc = "initIncludes" =>
        /\ \A i \in 1..Len(AllChains) :
               NoEmptyName(AllChains[i]) => PathIn(includes.list, AllChains[i])
        /\ OnlyFromChains(includes.list, <<>>)

----------------------------------------------------------------------------
(* The sort builder: a caller puts Values under the sort key of a Values   *)
(* map, writes their value strings and calls initSort.                     *)

SortAlphabet == {"a", "b", sortDelimiter, sortDescChar}

NewSortValue(nested) ==
    /\ pc = "input"
    /\ typed < MaxSortPieces
    /\ values' = [nil |-> FALSE, map |-> addValue(values.map, sortKeyword, nested)]
    /\ typed' = typed + 1
    /\ UNCHANGED <<pc, path, request, err, key, topKey, nestedKeys, query, parsed,
                   includes, sort,
                   resourceFields, queryFilters, queryPage, params, getArgs, got, cleaned,
                   isRelationship, isRelatedResource>>

TypeSort(c) ==
    /\ pc = "input"
    /\ typed < MaxSortPieces
    /\ sortKeyword \in DOMAIN values.map
    /\ values' = [values EXCEPT !.map = typeValue(@, sortKeyword, c)]
    /\ typed' = typed + 1
    /\ UNCHANGED <<pc, path, request, err, key, topKey, nestedKeys, query, parsed,
                   includes, sort,
                   resourceFields, queryFilters, queryPage, params, getArgs, got, cleaned,
                   isRelationship, isRelatedResource>>

CallInitSort ==
    /\ pc = "input"
    /\ sort' = initSort(values.map)
    /\ pc' = "initSort"
    /\ UNCHANGED <<typed, path, request, err, key, topKey, nestedKeys, query, values,
                   parsed, includes,
                   resourceFields, queryFilters, queryPage, params, getArgs, got, cleaned,
                   isRelationship, isRelatedResource>>

NextSort ==
    \/ \E nested \in ValueNestedKeys : NewSortValue(nested)
    \/ \E c \in SortAlphabet : TypeSort(c)
    \/ CallInitSort

SpecSort == Init /\ [][NextSort]_vars

\* the name and the direction a comma-separated sort field stands for
FieldOf(f) ==
    IF f # <<>> /\ f[1] = "-"
    THEN [FieldName |-> SubSeq(f, 2, Len(f)), Order |-> OrderDesc]
    ELSE [FieldName |-> f, Order |-> OrderAsc]

HasName(e) == e.FieldName # EmptyString

\* the named fields of the accepted sort Values, in order
AllFields ==
    LET fields == PiecesOfAccepted(Lookup(values.map, sortKeyword))
    IN  SelectSeq([i \in 1..Len(fields) |-> FieldOf(fields[i])], HasName)

\* the position in AllFields of the first field of that name, 0 if none
FirstOccurrence(name) ==
    LET S == {i \in 1..Len(AllFields) : AllFields[i].FieldName = name}
    IN  IF S = {} THEN 0 ELSE Nth(S, 1)

\* C10: initSort keeps each field name (the name behind one leading '-') of
\* the comma-separated fields of the accepted sort Values at most once, with
\* the direction of its first occurrence, in the order of first occurrence;
\* sort Values with nested keys or an empty value string are skipped, and
\* the result is nil when no entry was produced.
C10_FirstOccurrenceWins ==
    pc = "initSort" =>
        /\ \A i \in 1..Len(sort.list) :
               /\ FirstOccurrence(sort.list[i].FieldName) > 0
               /\ sort.list[i].Order
                      = AllFields[FirstOccurrence(sort.list[i].FieldName)].Order
        /\ \A i, j \in 1..Len(sort.list) :
               i < j => /\ sort.list[i].FieldName # sort.list[j].FieldName
                        /\ FirstOccurrence(sort.list[i].FieldName)
                               < FirstOccurrence(sort.list[j].FieldName)
        /\ sort.nil <=> sort.list = <<>>

\* C11: in initSort an empty field name is skipped and the remaining fields
\* of the value are still processed: every non-empty field name of every
\* accepted sort Value, at any comma-separated position (also behind an
\* empty field), has an entry in the output, and no entry of the output has
\* an empty FieldName.
C11_EmptyFieldSkipped ==
    pc = "initSort" =>
        /\ \A i \in 1..Len(AllFields) :
               \E j \in 1..Len(sort.list) :
                   sort.list[j].FieldName = AllFields[i].FieldName
        /\ \A j \in 1..Len(sort.list) : sort.list[j].FieldName # EmptyString

----------------------------------------------------------------------------
(* The fields builder: a caller puts Values under the fields key of a      *)
(* Values map, writes their value strings and calls initResourceFields.    *)

\* the nested keys a fields Value carries: none, one resource type, or two keys
FieldsNestedKeys ==
    {NilKeys,
     [nil |-> FALSE, keys |-> << <<"a">> >>],
     [nil |-> FALSE, keys |-> << <<"b">> >>],
     [nil |-> FALSE, keys |-> << <<"a">>, <<"b">> >>]}

FieldsAlphabet == {"a", "b", fieldsDelimiter, " "}

NewFieldsValue(nested) ==
    /\ pc = "input"
    /\ typed < MaxFieldsPieces
    /\ values' = [nil |-> FALSE, map |-> addValue(values.map, fieldsKeyword, nested)]
    /\ typed' = typed + 1
    /\ UNCHANGED <<pc, path, request, err, key, topKey, nestedKeys, query, parsed,
                   includes, sort,
                   resourceFields, queryFilters, queryPage, params, getArgs, got, cleaned,
                   isRelationship, isRelatedResource>>

TypeFields(c) ==
    /\ pc = "input"
    /\ typed < MaxFieldsPieces
    /\ fieldsKeyword \in DOMAIN values.map
    /\ values' = [values EXCEPT !.map = typeValue(@, fieldsKeyword, c)]
    /\ typed' = typed + 1
    /\ UNCHANGED <<pc, path, request, err, key, topKey, nestedKeys, query, parsed,
                   includes, sort,
                   resourceFields, queryFilters, queryPage, params, getArgs, got, cleaned,
                   isRelationship, isRelatedResource>>

CallInitResourceFields ==
    /\ pc = "input"
    /\ resourceFields' = initResourceFields(values.map)
    /\ pc' = "initResourceFields"
    /\ UNCHANGED <<typed, path, request, err, key, topKey, nestedKeys, query, values,
                   parsed, includes, sort,
                   queryFilters, queryPage, params, getArgs, got, cleaned,
                   isRelationship, isRelatedResource>>

NextFields ==
    \/ \E nested \in FieldsNestedKeys : NewFieldsValue(nested)
    \/ \E c \in FieldsAlphabet : TypeFields(c)
    \/ CallInitResourceFields

SpecFields == Init /\ [][NextFields]_vars

\* the fields Values of the call
FieldsValues == Lookup(values.map, fieldsKeyword)

\* a Value with exactly one nested key and a non-empty value string
HasOneKeyAndValue(val) == LenNestedKeys(val) = 1 /\ val.Value # EmptyString

\* the resource types the fields Values name
ResourceTypes ==
    {FieldsValues[i].NestedKeys.keys[1] :
        i \in {j \in 1..Len(FieldsValues) : LenNestedKeys(FieldsValues[j]) = 1}}

\* the non-empty comma-separated names of the Values of the resource type rt
\* that have a value, in order
NamesOf(rt) ==
    SelectSeq(
        Flatten([i \in 1..Len(FieldsValues) |->
                    IF HasOneKeyAndValue(FieldsValues[i])
                       /\ FieldsValues[i].NestedKeys.keys[1] = rt
                    THEN PiecesBetween(FieldsValues[i].Value, {","})
                    ELSE <<>>]),
        IsNonEmpty)

\* the sequence s without the elements that stand in it earlier already
FirstOccurrences(s) ==
    LET F == {i \in 1..Len(s) : \A j \in 1..(i - 1) : s[j] # s[i]}
    IN  [k \in 1..Cardinality(F) |-> s[Nth(F, k)]]

\* C12: initResourceFields maps each resource type (the single nested key of
\* a fields Value with a value) to the distinct non-empty comma-separated
\* names of all such Values of that resource type, in the order of first
\* occurrence: later Values add to the list and never replace it, duplicates
\* within and across the Values of one resource type are dropped, the same
\* name under another resource type is kept; no resource type maps to an
\* empty list, and the result is nil when nothing was contributed.
C12_UnionPerResourceType ==
    pc = "initResourceFields" =>
        /\ DOMAIN resourceFields.map = {rt \in ResourceTypes : NamesOf(rt) # <<>>}
        /\ \A rt \in DOMAIN resourceFields.map :
               resourceFields.map[rt] = FirstOccurrences(NamesOf(rt))
        /\ resourceFields.nil <=> DOMAIN resourceFields.map = {}

\* two Values of one resource type have a value, and a name of theirs that
\* stood earlier already has been dropped
C12_Witness ==
    /\ pc = "initResourceFields"
    /\ ~resourceFields.nil
    /\ \E rt \in DOMAIN resourceFields.map :
           /\ Len(NamesOf(rt)) > Len(resourceFields.map[rt])
           /\ \E i, j \in 1..Len(FieldsValues) :
                  /\ i < j
                  /\ HasOneKeyAndValue(FieldsValues[i]) /\ HasOneKeyAndValue(FieldsValues[j])
                  /\ FieldsValues[i].NestedKeys.keys[1] = rt
                  /\ FieldsValues[j].NestedKeys.keys[1] = rt

\* the string s without the blanks at its two ends
RECURSIVE TrimSpace(_)
TrimSpace(s) ==
    IF s = <<>> THEN s
    ELSE IF Head(s) = " " THEN TrimSpace(Tail(s))
    ELSE IF s[Len(s)] = " " THEN TrimSpace(SubSeq(s, 1, Len(s) - 1))
    ELSE s

\* C13: initResourceFields accepts a fields Value only if it has exactly one
\* nested key and its value is non-empty after trimming: every name of the
\* result stands in a Value of that kind under its resource type, so a Value
\* with zero or several nested keys, an empty value or a value of whitespace
\* only contributes no entry.
C13_AcceptedAfterTrim ==
    pc = "initResourceFields" =>
        \A rt \in DOMAIN resourceFields.map :
            \A n \in 1..Len(resourceFields.map[rt]) :
                \E i \in 1..Len(FieldsValues) :
                    /\ LenNestedKeys(FieldsValues[i]) = 1
                    /\ FieldsValues[i].NestedKeys.keys[1] = rt
                    /\ TrimSpace(FieldsValues[i].Value) # EmptyString
                    /\ \E k \in DOMAIN PiecesBetween(FieldsValues[i].Value, {","}) :
                           PiecesBetween(FieldsValues[i].Value, {","})[k]
                               = resourceFields.map[rt][n]

----------------------------------------------------------------------------
(* The filter builder: a caller puts Values under the filter key of a      *)
(* Values map, writes their value strings and calls initFilters.           *)

FilterAlphabet == {"a", "b"}

NewFilterValue(nested) ==
    /\ pc = "input"
    /\ typed < MaxFilterPieces
    /\ values' = [nil |-> FALSE, map |-> addValue(values.map, filterKeyword, nested)]
    /\ typed' = typed + 1
    /\ UNCHANGED <<pc, path, request, err, key, topKey, nestedKeys, query, parsed,
                   includes, sort,
                   resourceFields, queryFilters, queryPage, params, getArgs, got, cleaned,
                   isRelationship, isRelatedResource>>

TypeFilter(c) ==
    /\ pc = "input"
    /\ typed < MaxFilterPieces
    /\ filterKeyword \in DOMAIN values.map
    /\ values' = [values EXCEPT !.map = typeValue(@, filterKeyword, c)]
    /\ typed' = typed + 1
    /\ UNCHANGED <<pc, path, request, err, key, topKey, nestedKeys, query, parsed,
                   includes, sort,
                   resourceFields, queryFilters, queryPage, params, getArgs, got, cleaned,
                   isRelationship, isRelatedResource>>

CallInitFilters ==
    /\ pc = "input"
    /\ queryFilters' = initFilters(values.map)
    /\ pc' = "initFilters"
    /\ UNCHANGED <<typed, path, request, err, key, topKey, nestedKeys, query, values,
                   parsed, includes, sort,
                   resourceFields, queryPage, params, getArgs, got, cleaned,
                   isRelationship, isRelatedResource>>

NextFilters ==
    \/ \E nested \in FieldsNestedKeys : NewFilterValue(nested)
    \/ \E c \in FilterAlphabet : TypeFilter(c)
    \/ CallInitFilters

SpecFilters == Init /\ [][NextFilters]_vars

\* the filter Values of the call that have one nested key and a value, in order
FilterSources == SelectSeq(Lookup(values.map, filterKeyword), HasOneKeyAndValue)

\* C14: initFilters emits one Filter, of the nested key as FieldName and the
\* unchanged value as Predicate, for every filter Value with exactly one
\* nested key and a non-empty value, in encounter order and with repeated
\* field names all kept; the other Values emit nothing, and the result is
\* nil when no Filter was emitted.
C14_OneFilterPerValue ==
    pc = "initFilters" =>
        /\ Len(queryFilters.list) = Len(FilterSources)
        /\ \A i \in 1..Len(FilterSources) :
               queryFilters.list[i] = [FieldName |-> FilterSources[i].NestedKeys.keys[1],
                                       Predicate |-> FilterSources[i].Value]
        /\ queryFilters.nil <=> FilterSources = <<>>

\* two Filters of the same field name are kept, and some Value emitted nothing
C14_Witness ==
    /\ pc = "initFilters"
    /\ \E i, j \in 1..Len(queryFilters.list) :
           i < j /\ queryFilters.list[i].FieldName = queryFilters.list[j].FieldName
    /\ Len(Lookup(values.map, filterKeyword)) > Len(queryFilters.list)

----------------------------------------------------------------------------
(* The page builder: a caller puts Values under the page key of a Values   *)
(* map, writes their value strings and calls initPage.                     *)

size == <<"s", "i", "z", "e">>
number == <<"n", "u", "m", "b", "e", "r">>
limit == <<"l", "i", "m", "i", "t">>
offset == <<"o", "f", "f", "s", "e", "t">>
cursor == <<"c", "u", "r", "s", "o", "r">>

\* the nested keys a page Value carries: none, a recognized key, another key,
\* or two keys
PageNestedKeys ==
    {NilKeys, [nil |-> FALSE, keys |-> <<size, number>>], [nil |-> FALSE, keys |-> << <<"a">> >>]}
        \cup {[nil |-> FALSE, keys |-> <<k>>] : k \in {size, number, limit, offset, cursor}}

PageAlphabet == {"1", "2"}

NewPageValue(nested) ==
    /\ pc = "input"
    /\ typed < MaxPagePieces
    /\ values' = [nil |-> FALSE, map |-> addValue(values.map, pageKeyword, nested)]
    /\ typed' = typed + 1
    /\ UNCHANGED <<pc, path, request, err, key, topKey, nestedKeys, query, parsed,
                   includes, sort,
                   resourceFields, queryFilters, queryPage, params, getArgs, got, cleaned,
                   isRelationship, isRelatedResource>>

TypePage(c) ==
    /\ pc = "input"
    /\ typed < MaxPagePieces
    /\ pageKeyword \in DOMAIN values.map
    /\ values' = [values EXCEPT !.map = typeValue(@, pageKeyword, c)]
    /\ typed' = typed + 1
    /\ UNCHANGED <<pc, path, request, err, key, topKey, nestedKeys, query, parsed,
                   includes, sort,
                   resourceFields, queryFilters, queryPage, params, getArgs, got, cleaned,
                   isRelationship, isRelatedResource>>

CallInitPage ==
    /\ pc = "input"
    /\ queryPage' = initPage(values.map)
    /\ pc' = "initPage"
    /\ UNCHANGED <<typed, path, request, err, key, topKey, nestedKeys, query, values,
                   parsed, includes, sort,
                   resourceFields, queryFilters, params, getArgs, got, cleaned,
                   isRelationship, isRelatedResource>>

NextPage ==
    \/ \E nested \in PageNestedKeys : NewPageValue(nested)
    \/ \E c \in PageAlphabet : TypePage(c)
    \/ CallInitPage

SpecPage == Init /\ [][NextPage]_vars

PageValues == Lookup(values.map, pageKeyword)

\* the values of the page Values whose only nested key is k
ValuesUnder(k) ==
    {PageValues[i].Value :
        i \in {j \in 1..Len(PageValues) :
                  LenNestedKeys(PageValues[j]) = 1 /\ PageValues[j].NestedKeys.keys[1] = k}}

\* the field of a Page is the value of a page Value under the key k, or empty
FieldHolds(f, k) ==
    IF ValuesUnder(k) = {} THEN f = EmptyString ELSE f \in ValuesUnder(k)

\* C15: initPage returns a non-nil Page if and only if some page Value has
\* exactly one nested key that is one of size, number, limit, offset and
\* cursor, whatever its value; each field of the Page holds the value of a
\* page Value with the matching nested key, or the empty string if there is
\* none, so that Values with another key or another number of keys change
\* no field.
C15_PageOfRecognizedKeys ==
    pc = "initPage" =>
        /\ ~queryPage.nil <=>
               \E k \in {size, number, limit, offset, cursor} : ValuesUnder(k) # {}
        /\ ~queryPage.nil =>
               /\ FieldHolds(queryPage.Size, size)
               /\ FieldHolds(queryPage.Number, number)
               /\ FieldHolds(queryPage.Limit, limit)
               /\ FieldHolds(queryPage.Offset, offset)
               /\ FieldHolds(queryPage.Cursor, cursor)

\* a Page is returned for a recognized key of an empty value, next to a Value
\* of another key
C15_Witness ==
    /\ pc = "initPage"
    /\ ~queryPage.nil
    /\ \E k \in {size, number, limit, offset, cursor} : ValuesUnder(k) = {EmptyString}
    /\ ValuesUnder(<<"a">>) # {}

----------------------------------------------------------------------------
(* The include builder, when no Value yields a node.                       *)

\* C16: if the include key is present but none of its Values yields a node
\* (all carry nested keys, have an empty value, or hold empty chains only),
\* initIncludes returns nil, the result it returns when the include key is
\* absent, so that the two cases cannot be told apart.
C16_NilWithoutNodes ==
    (pc = "initIncludes" /\ includes.list = <<>>) => includes = NilIncludes

----------------------------------------------------------------------------
(* The request parser: a caller writes a text piece by piece and gives it  *)
(* to ParseRequest, or to parsePath.                                       *)

\* ParseRequest handing out the Request of the path when the query fails
ParseRequestMutPartial(text) ==
    LET path_query == split(text, "?", TRUE)
        r == parsePath(path_query[1])
        q == ParseQuery(path_query[2])
    IN  IF ~r.err.nil THEN [request |-> NilRequest, err |-> r.err]
        ELSE IF ~q.err.nil THEN [request |-> r.request, err |-> q.err]
        ELSE [request |-> [r.request EXCEPT !.Query = q.query], err |-> NoError]

\* ParseRequest: [request, err]
ParseRequest(text) ==
    LET path_query == split(text, "?", TRUE)
        r == parsePath(path_query[1])
        q == ParseQuery(path_query[2])
    IN  IF ~r.err.nil THEN [request |-> NilRequest, err |-> r.err]
        ELSE IF ~q.err.nil THEN [request |-> NilRequest, err |-> q.err]
        ELSE [request |-> [r.request EXCEPT !.Query = q.query], err |-> NoError]

\* the pieces a caller composes a request of: a separator, a segment with and
\* without its separator, the literal, the question mark, a broken escape,
\* a query fragment
RequestPieces ==
    {<<"/">>, <<"a", "/">>, <<"b">>, relationshipsRequest \o <<"/">>, <<"?">>, <<"%">>,
     sortKeyword \o <<"=", "a">>}

TypeParams(piece) ==
    /\ pc = "input"
    /\ typed < MaxRequestPieces
    /\ params' = params \o piece
    /\ typed' = typed + 1
    /\ UNCHANGED <<pc, path, request, err, key, topKey, nestedKeys, query, values, parsed,
                   includes, sort,
                   resourceFields, queryFilters, queryPage, getArgs, got, cleaned,
                   isRelationship, isRelatedResource>>

CallParseRequest ==
    /\ pc = "input"
    /\ LET r == ParseRequest(params)
       IN  /\ request' = r.request
           /\ err' = r.err
    /\ pc' = "ParseRequest"
    /\ UNCHANGED <<typed, path, key, topKey, nestedKeys, query, values, parsed,
                   includes, sort,
                   resourceFields, queryFilters, queryPage, params, getArgs, got, cleaned,
                   isRelationship, isRelatedResource>>

\* the caller gives the text to parsePath instead
CallParsePathOfParams ==
    /\ pc = "input"
    /\ path' = params
    /\ LET r == parsePath(params)
       IN  /\ request' = r.request
           /\ err' = r.err
    /\ pc' = "parsePath"
    /\ UNCHANGED <<typed, key, topKey, nestedKeys, query, values, parsed,
                   includes, sort,
                   resourceFields, queryFilters, queryPage, params, getArgs, got, cleaned,
                   isRelationship, isRelatedResource>>

NextRequest ==
    \/ \E piece \in RequestPieces : TypeParams(piece)
    \/ CallParseRequest
    \/ CallParsePathOfParams

SpecRequest == Init /\ [][NextRequest]_vars

\* the positions of the question marks of the text
QuestionMarks == {i \in 1..Len(params) : params[i] = "?"}

\* the text before the first question mark, the whole text if there is none
PathPart ==
    IF QuestionMarks = {} THEN params ELSE SubSeq(params, 1, Nth(QuestionMarks, 1) - 1)

\* the text behind the first question mark, empty if there is none
QueryPart ==
    IF QuestionMarks = {} THEN EmptyString
    ELSE SubSeq(params, Nth(QuestionMarks, 1) + 1, Len(params))

\* C17: ParseRequest splits its input at the first '?' into a path and a
\* query.  On success the Request is the one parsePath gives for the path
\* part, with Query set to the non-nil result of ParseQuery on the query part
\* (also without a '?'); an invalid path gives the path's error whatever the
\* query is, a query that alone fails to decode gives that error, and in both
\* cases the Request is nil.
C17_PathThenQuery ==
    pc = "ParseRequest" =>
        LET p == parsePath(PathPart)
            q == ParseQuery(QueryPart)
        IN  /\ ~p.err.nil => (err = p.err /\ request.nil)
            /\ (p.err.nil /\ ~q.err.nil) => (err = q.err /\ request.nil)
            /\ (p.err.nil /\ q.err.nil) =>
                   /\ err.nil
                   /\ ~request.nil
                   /\ ~request.Query.nil
                   /\ request = [p.request EXCEPT !.Query = q.query]

\* a related-resource request with a sort list has been parsed
C17_Witness ==
    /\ pc = "ParseRequest"
    /\ err.nil
    /\ ~request.nil
    /\ request.RelatedResourceType # EmptyString
    /\ ~request.Query.Sort.nil

\* C19: in every Request that parsePath or ParseRequest returns, at most one
\* of RelationshipType and RelatedResourceType is non-empty.
C19_RelationExclusive ==
    (pc \in {"parsePath", "ParseRequest"} /\ ~request.nil) =>
        (request.RelationshipType = EmptyString \/ request.RelatedResourceType = EmptyString)

\* ParseRequest has returned a relationship request
C19_Witness ==
    /\ pc = "ParseRequest"
    /\ ~request.nil
    /\ request.RelationshipType # EmptyString
    /\ request.RelatedResourceType = EmptyString

----------------------------------------------------------------------------
(* Redundant separators in the path given to parsePath (SpecPath).         *)

\* the places of the path where a separator may be added without parting a
\* segment: the start, the end, and behind every separator
SeparatorPlaces == {0, Len(path)} \cup {i \in 1..Len(path) : path[i] = "/"}

\* the path with one more separator behind its first i characters
WithSeparatorAt(i) == SubSeq(path, 1, i) \o <<"/">> \o SubSeq(path, i + 1, Len(path))

\* C20: redundant separators do not change the classification of a path: a
\* path of 1 to 4 non-empty segments that parsePath accepts is accepted too,
\* with an equal Request, when a separator is added at its start, between its
\* segments or at its end.
C20_SeparatorsIgnored ==
    (/\ pc = "parsePath"
     /\ err.nil
     /\ \A k \in 1..Len(PathSegments) : PathSegments[k] # EmptyString) =>
        \A i \in SeparatorPlaces :
            parsePath(WithSeparatorAt(i)) = [request |-> request, err |-> NoError]

----------------------------------------------------------------------------
(* The accessor Values.Get: a caller puts Values under a key of a Values   *)
(* map, writes their value strings and asks for a value.                   *)

\* the loop of Get over list[i..] that takes a list for any key sequence it
\* starts with
RECURSIVE getLoopMutPrefix(_, _, _)
getLoopMutPrefix(list, i, keys) ==
    IF i > Len(list) THEN EmptyString
    ELSE LET item == list[i]
         IN  IF LenNestedKeys(item) < Len(keys) THEN getLoopMutPrefix(list, i + 1, keys)
             ELSE IF \A n \in 1..Len(keys) : item.NestedKeys.keys[n] = keys[n]
             THEN item.Value
             ELSE getLoopMutPrefix(list, i + 1, keys)

GetMutPrefix(v, k, keys) ==
    IF v.nil THEN EmptyString
    ELSE getLoopMutPrefix(Lookup(v.map, k), 1, keys)

\* the loop of Get over list[i..]
RECURSIVE getLoop(_, _, _)
getLoop(list, i, keys) ==
    IF i > Len(list) THEN EmptyString
    ELSE LET item == list[i]
         IN  IF LenNestedKeys(item) # Len(keys) THEN getLoop(list, i + 1, keys)
             ELSE IF LenNestedKeys(item) = 0 /\ Len(keys) = 0 THEN item.Value
             ELSE IF \A n \in 1..Len(keys) : item.NestedKeys.keys[n] = keys[n]
             THEN item.Value
             ELSE getLoop(list, i + 1, keys)

\* v.Get(k, keys...): the empty string on a nil map and on an empty list
Get(v, k, keys) ==
    IF v.nil THEN EmptyString
    ELSE IF Len(Lookup(v.map, k)) = 0 THEN EmptyString
    ELSE getLoop(Lookup(v.map, k), 1, keys)

\* the key the caller stores under, and a key that is never stored
storedKey == <<"k">>
absentKey == <<"x">>

\* the nested keys a stored Value carries: nil, empty, one key, two keys
GetNestedKeys ==
    {NilKeys,
     [nil |-> FALSE, keys |-> <<>>],
     [nil |-> FALSE, keys |-> << <<"a">> >>],
     [nil |-> FALSE, keys |-> << <<"b">> >>],
     [nil |-> FALSE, keys |-> << <<"a">>, <<"b">> >>]}

GetAlphabet == {"1", "2"}

NewStoredValue(nested) ==
    /\ pc = "input"
    /\ typed < MaxGetPieces
    /\ values' = [nil |-> FALSE, map |-> addValue(values.map, storedKey, nested)]
    /\ typed' = typed + 1
    /\ UNCHANGED <<pc, path, request, err, key, topKey, nestedKeys, query, parsed,
                   includes, sort,
                   resourceFields, queryFilters, queryPage, params, getArgs, got, cleaned,
                   isRelationship, isRelatedResource>>

TypeStored(c) ==
    /\ pc = "input"
    /\ typed < MaxGetPieces
    /\ storedKey \in DOMAIN values.map
    /\ values' = [values EXCEPT !.map = typeValue(@, storedKey, c)]
    /\ typed' = typed + 1
    /\ UNCHANGED <<pc, path, request, err, key, topKey, nestedKeys, query, parsed,
                   includes, sort,
                   resourceFields, queryFilters, queryPage, params, getArgs, got, cleaned,
                   isRelationship, isRelatedResource>>

CallGet(k, keys) ==
    /\ pc = "input"
    /\ getArgs' = [topKey |-> k, nestedKeys |-> keys]
    /\ got' = Get(values, k, keys)
    /\ pc' = "Get"
    /\ UNCHANGED <<typed, path, request, err, key, topKey, nestedKeys, query, values,
                   parsed, includes, sort,
                   resourceFields, queryFilters, queryPage, params, cleaned,
                   isRelationship, isRelatedResource>>

NextGet ==
    \/ \E nested \in GetNestedKeys : NewStoredValue(nested)
    \/ \E c \in GetAlphabet : TypeStored(c)
    \/ \E k \in {storedKey, absentKey}, nested \in GetNestedKeys : CallGet(k, nested.keys)

SpecGet == Init /\ [][NextGet]_vars

\* the entries, by position, under the asked top key whose nested keys are
\* the asked ones
Matches ==
    LET list == Lookup(values.map, getArgs.topKey)
    IN  {i \in 1..Len(list) : list[i].NestedKeys.keys = getArgs.nestedKeys}

\* C18: Values.Get(topKey, nestedKeys...) returns the Value string of the
\* first entry, in stored order, under topKey whose NestedKeys are exactly
\* the given ones (nil and empty both count as none; a prefix of a longer
\* sequence does not match), and the empty string when no entry matches,
\* the key is absent or the map is nil; the call never modifies the map.
C18_GetFirstExactMatch ==
    /\ [](pc = "Get" =>
             got = IF values.nil \/ Matches = {} THEN EmptyString
                   ELSE Lookup(values.map, getArgs.topKey)[Nth(Matches, 1)].Value)
    /\ [][pc' = "Get" => values' = values]_vars

\* the value returned stands behind an entry of a longer key sequence that
\* starts with the asked keys
C18_Witness ==
    /\ pc = "Get"
    /\ got # EmptyString
    /\ Nth(Matches, 1) > 1
    /\ LET first == Lookup(values.map, getArgs.topKey)[1]
       IN  /\ LenNestedKeys(first) > Len(getArgs.nestedKeys)
           /\ SubSeq(first.NestedKeys.keys, 1, Len(getArgs.nestedKeys)) = getArgs.nestedKeys
           /\ first.Value # got

----------------------------------------------------------------------------
(* The delimiter normalizer: a caller writes a path character by character *)
(* and calls removeExtraDelimiters on it.                                  *)

DelimiterAlphabet == {"/", "a", "b"}

TypeDelimited(c) ==
    /\ pc = "input"
    /\ typed < MaxDelimiterLen
    /\ path' = Append(path, c)
    /\ typed' = typed + 1
    /\ UNCHANGED <<pc, request, err, key, topKey, nestedKeys, query, values, parsed,
                   includes, sort,
                   resourceFields, queryFilters, queryPage, params, getArgs, got, cleaned,
                   isRelationship, isRelatedResource>>

CallRemoveExtraDelimiters ==
    /\ pc = "input"
    /\ cleaned' = removeExtraDelimiters(path)
    /\ pc' = "removeExtraDelimiters"
    /\ UNCHANGED <<typed, path, request, err, key, topKey, nestedKeys, query, values,
                   parsed, includes, sort,
                   resourceFields, queryFilters, queryPage, params, getArgs, got,
                   isRelationship, isRelatedResource>>

NextDelimiters ==
    \/ \E c \in DelimiterAlphabet : TypeDelimited(c)
    \/ CallRemoveExtraDelimiters

SpecDelimiters == Init /\ [][NextDelimiters]_vars

IsNoSeparator(c) == c # "/"

\* the positions of s that do not follow a separator directly: the characters
\* that are kept when every run of separators becomes one separator
KeptPositions(s) == {i \in 1..Len(s) : ~(s[i] = "/" /\ i > 1 /\ s[i - 1] = "/")}

\* C21: removeExtraDelimiters replaces every maximal run of '/' by a single
\* '/', keeps all other characters unchanged and in order, maps the empty
\* string to the empty string, and is idempotent: its output never has two
\* adjacent '/', and applying it twice gives what applying it once gives.
C21_RunsCollapsed ==
    pc = "removeExtraDelimiters" =>
        /\ Len(cleaned) = Cardinality(KeptPositions(path))
        /\ \A k \in 1..Len(cleaned) : cleaned[k] = path[Nth(KeptPositions(path), k)]
        /\ SelectSeq(cleaned, IsNoSeparator) = SelectSeq(path, IsNoSeparator)
        /\ path = EmptyString => cleaned = EmptyString
        /\ \A i \in 1..(Len(cleaned) - 1) : ~(cleaned[i] = "/" /\ cleaned[i + 1] = "/")
        /\ removeExtraDelimiters(cleaned) = cleaned

\* a path with a run at its start, one inside and one at its end has been
\* normalized
C21_Witness ==
    /\ pc = "removeExtraDelimiters"
    /\ Len(path) = 6
    /\ path[1] = "/" /\ path[2] = "/" /\ path[5] = "/" /\ path[6] = "/"
    /\ Len(cleaned) = 4

----------------------------------------------------------------------------
(* The leading question mark of the query given to ParseValues.            *)

\* the pieces a caller composes such a query of: the question mark, plain and
\* percent-encoded, and what makes fragments
LeadingPieces == {<<"?">>, <<"%", "3", "F">>, <<"a">>, <<"=">>, <<"&">>}

NextLeading ==
    \/ \E piece \in LeadingPieces : TypeQuery(piece)
    \/ CallParseValues

SpecLeading == Init /\ [][NextLeading]_vars

\* the raw query without one leading '?', then percent-decoded
StrippedThenDecoded ==
    QueryUnescape(IF query # <<>> /\ query[1] = "?"
                  THEN SubSeq(query, 2, Len(query)) ELSE query).s

\* its non-empty fragments
FragmentsOfStripped ==
    SelectSeq(PiecesBetween(StrippedThenDecoded, {"&", ";"}), IsNonEmpty)

\* C22: ParseValues first strips a single leading '?' from the raw query and
\* only then percent-decodes it: at most one '?' is removed, and only when
\* it is the first character of the raw input, so that the records are those
\* of the fragments of the stripped and then decoded string, and a
\* percent-encoded '?' at the start stays in the first key.
C22_StripBeforeDecode ==
    (pc = "ParseValues" /\ err.nil) =>
        LET recs == [i \in 1..Len(FragmentsOfStripped) |-> RecordOf(FragmentsOfStripped[i])]
        IN  /\ \A i \in 1..Len(recs) : Stored(values.map, recs[i]) = Occurrences(recs, recs[i])
            /\ \A k \in DOMAIN values.map :
                   \A j \in 1..Len(values.map[k]) :
                       Occurrences(recs, values.map[k][j]) >= 1

----------------------------------------------------------------------------
(* The projections of ParseQuery and the keys they read (SpecQuery).       *)

\* the multimap m with nothing but the key k
OnlyKey(m, k) == [x \in DOMAIN m \cap {k} |-> m[x]]

\* C23: each of the five projections of ParseQuery depends only on the Value
\* list of its own key: it is what its builder gives for the multimap with
\* every other key taken out, so that two queries with the same list under
\* the key have the same projection, whatever other fragments are present;
\* the builders leave the multimap unchanged, Query.Values being the result
\* of ParseValues on the same string.
C23_ProjectionsIndependent ==
    (pc = "ParseQuery" /\ err.nil) =>
        LET m == parsed.Values.map
        IN  /\ parsed.Sort = initSort(OnlyKey(m, sortKeyword))
            /\ parsed.Includes = initIncludes(OnlyKey(m, includeKeyword))
            /\ parsed.Filters = initFilters(OnlyKey(m, filterKeyword))
            /\ parsed.Fields = initResourceFields(OnlyKey(m, fieldsKeyword))
            /\ parsed.Page = initPage(OnlyKey(m, pageKeyword))
            /\ parsed.Values = ParseValues(query).values

\* a query of two keys has been parsed, and both projections are there
C23_Witness ==
    /\ pc = "ParseQuery"
    /\ err.nil
    /\ DOMAIN parsed.Values.map = {sortKeyword, pageKeyword}
    /\ ~parsed.Sort.nil
    /\ ~parsed.Page.nil

----------------------------------------------------------------------------
(* The predicates of a Request: a caller asks a Request that parsePath     *)
(* returned which kind of request it is.                                   *)

\* Request.IsRelationshipRequest
IsRelationshipRequest(r) == r.RelatedResourceType # EmptyString

\* Request.IsRelatedResourceRequest
IsRelatedResourceRequest(r) == r.RelatedResourceType # EmptyString

CallPredicates ==
    /\ pc = "parsePath"
    /\ ~request.nil
    /\ isRelationship' = IsRelationshipRequest(request)
    /\ isRelatedResource' = IsRelatedResourceRequest(request)
    /\ pc' = "predicates"
    /\ UNCHANGED <<typed, path, request, err, key, topKey, nestedKeys, query, values,
                   parsed, includes, sort,
                   resourceFields, queryFilters, queryPage, params, getArgs, got, cleaned>>

NextPredicates ==
    \/ \E piece \in PathPieces : TypePath(piece)
    \/ CallParsePath
    \/ CallPredicates

SpecPredicates == Init /\ [][NextPredicates]_vars

\* C24: for every Request that parsePath returns, IsRelationshipRequest() is
\* true exactly when RelationshipType is non-empty (the 4-segment form) and
\* IsRelatedResourceRequest() exactly when RelatedResourceType is non-empty
\* (the 3-segment form), and the two are never both true.
C24_PredicatesMatchFields ==
    pc = "predicates" =>
        /\ isRelationship <=> request.RelationshipType # EmptyString
        /\ isRelatedResource <=> request.RelatedResourceType # EmptyString
        /\ ~(isRelationship /\ isRelatedResource)

============================================================================
